---------------------------- MODULE Spec2Model ----------------------------
(***************************************************************************)
(* A model of the algorithmic scripts of the "Geometry of the Echo"       *)
(* repository: the V8/V9 boundary-following walker (6_sabueso_v8_final.py, *)
(* 17_sabueso_v9_correction_proof.py), the process-pool scans             *)
(* (1_main_fractal.py, 3_main_line_hunter.py, 3_trace_vertex.py), the      *)
(* Moran significance test (4_calc_sigma_significance.py), the Monte       *)
(* Carlo sigma test (12_monte_carlo_sigma_test.py), the face scan and its  *)
(* reader (9_full_dodecahedron_map.py, 9_dodecaedro_final.py) and the V10  *)
(* walker's reorientation (8_sabueso_v10.py).                              *)
(*                                                                         *)
(* Units.  The walker's angles are integers in tenths of a degree         *)
(* (204.3 deg = 2043); the sweep angles of the scans are whole degrees.    *)
(* Signals returned by get_signal_at are integers in thousandths of a map  *)
(* unit, so that the factors 0.45 and 1.2 of the source stay exact.        *)
(* Correlations are integers in hundredths (0.15 = 15).  Latitudes are     *)
(* integers in thousandths of a degree (30.0 = 30000).                     *)
(***************************************************************************)
EXTENDS Integers, Sequences, FiniteSets, Bags, TLC

VARIABLES
    \* ---- walker (run_spider_v8 / run_spider_v9_corrected) ----
    sky,               \* the loaded maps map_I, map_P (the input signal field)
    current_pos,       \* (current_lat, current_lon), as the number of moves made
    current_bearing,   \* tenths of a degree; not normalised, as in the source
    signal_threshold,  \* thousandths
    vertices_found,
    steps_on_edge,
    total_steps,
    path,              \* the list of rows
    best_new_angle,    \* radar result, tenths of a degree
    max_scan_sig,      \* radar result, thousandths
    scan_k,            \* index into scan_angles of the next angle to scan
    pc                 \* "loop" at the head of the while body, "scan" inside
                       \* the radar's for loop, "done" after the while loop

VARIABLES
    \* ---- process pool (Pool.imap_unordered of the three scans) ----
    script,            \* the scan that runs: "line_hunter", "trace_vertex", "fractal"
    maps,              \* the maps the workers read (map_I/Q/U, shared_I/Q/U)
    inqueue,           \* chunks of tasks no worker has taken yet
    worker,            \* per worker: tasks left of its chunk, results so far
    outqueue,          \* results sent back to the parent, in completion order
    received,          \* number of results the for loop of main has taken
    collected,         \* all_hits / traces / results
    calls,             \* per task: number of calls of the task function on it
    pool_pc            \* "iterating" inside the with block, "saved" after it

VARIABLES
    \* ---- line hunter (3_main_line_hunter.py) ----
    hunter_maps,       \* the maps that were loaded
    lat_error,         \* rounding of the latitude computation in this run
    tasks_done,        \* number of centres main has collected
    hunter_idx,        \* idx of process_point
    lat_deg,           \* lat_deg of process_point
    sweep_angle,       \* angle, the loop variable of the sweep
    rects,             \* rectangles evaluated for the current centre
    results,           \* results of process_point
    all_hits,          \* all_hits of main
    csv,               \* the rows of line_metrics.csv
    hunter_pc

VARIABLES
    \* ---- vertex tracer (3_trace_vertex.py) ----
    tracer_maps,       \* the maps that were loaded
    tracer_idx,        \* idx of process_point
    trace_angle,       \* angle of the outer loop
    trace_len,         \* position of the inner loop in LINE_LENGTHS
    best_corr,
    best_line,         \* <<>> for None, <<line>> for a dict
    trace_result,      \* the value returned, <<>> for None
    tracer_pc

VARIABLES
    \* ---- resolve_input_file (1_main_fractal.py) ----
    files,             \* what glob.glob(pattern) returned
    selected,
    exit_status,
    resolve_pc

VARIABLES
    \* ---- index remapping (1_main_fractal.py) ----
    remap_maps,        \* the maps in the input file
    candidates,        \* the pixels get_ring_pixels returns, per candidate
    cand_i,            \* position of the geometric scan
    ring_pixel_map,
    unique_pixels,
    extracted_data,
    remap_tasks,       \* reduced_idxs of each task
    ring_vals,         \* vals_I, vals_Q, vals_U read by the workers, per task
    fractal_report,    \* the error lines printed
    fractal_exit,      \* the status of sys.exit, 0 while the script runs
    fractal_csv,       \* fractal_metrics.csv: whether it is written
    remap_pc

VARIABLES
    \* ---- Moran significance test (4_calc_sigma_significance.py) ----
    correlations,
    shuffled_corrs,
    real_moran,
    random_morans,
    n_higher,
    p_value,
    moran_pc

VARIABLES
    \* ---- Monte Carlo sigma test (12_monte_carlo_sigma_test.py) ----
    n_hits,
    mc_p_value,        \* p_value, as the fraction n_hits / n_sims
    sigma,
    conclusions,       \* the CONCLUSION lines printed, in order
    mc_pc

VARIABLES
    \* ---- face scanner and hologram (9_full_dodecahedron_map.py,
    \*      9_dodecaedro_final.py) ----
    face_seed,         \* which family of patches the map holds
    scan_results,      \* results of the scanner
    csv_exists,        \* os.path.exists(CSV_FILE)
    faces_csv,         \* the rows of dodecahedron_faces_coordinates.csv
    df,                \* the rows get_face_status has read
    status_list,
    scan_pc,
    holo_pc

VARIABLES
    \* ---- twist correction of V9 (17_sabueso_v9_correction_proof.py) ----
    correction_per_step,
    lon_corrected,     \* the lon_corrected column of df
    final_lon_corr,
    twist_pc

VARIABLES
    center_vec,        \* the centre of the ring
    radius_rad,        \* the radius of the ring
    width_rad,         \* the width of the ring
    ring_result,       \* the pixels get_ring_pixels returned
    disc_pc

VARIABLES
    \* ---- V10 walker (8_sabueso_v10.py), the reorientation at a vertex ----
    v10_sky,             \* map_I, map_P
    v10_pos,             \* (current_lat, current_lon), as the number of moves
    v10_current_bearing, \* tenths of a degree; not normalised
    v10_threshold,       \* thousandths
    steps_since_vertex,
    v10_vertices,
    v10_best_new_ang,    \* tenths of a degree
    v10_local_max,       \* thousandths
    v10_scan_k,          \* index into range(0, 360, 10) of the next scan_ang
    v10_pc

walkerVars ==
    <<sky, current_pos, current_bearing, signal_threshold, vertices_found,
      steps_on_edge, total_steps, path, best_new_angle, max_scan_sig,
      scan_k, pc>>

poolVars ==
    <<script, maps, inqueue, worker, outqueue, received, collected, calls,
      pool_pc>>

hunterVars ==
    <<hunter_maps, lat_error, tasks_done, hunter_idx, lat_deg, sweep_angle,
      rects,
      results, all_hits, csv, hunter_pc>>

tracerVars ==
    <<tracer_maps, tracer_idx, trace_angle, trace_len, best_corr, best_line,
      trace_result, tracer_pc>>

resolveVars == <<files, selected, exit_status, resolve_pc>>

remapVars ==
    <<remap_maps, candidates, cand_i, ring_pixel_map, unique_pixels,
      extracted_data, remap_tasks, ring_vals, fractal_report, fractal_exit,
      fractal_csv, remap_pc>>

fractalOutcome == <<fractal_report, fractal_exit, fractal_csv>>

moranVars ==
    <<correlations, shuffled_corrs, real_moran, random_morans, n_higher,
      p_value, moran_pc>>

sigmaVars == <<n_hits, mc_p_value, sigma, conclusions, mc_pc>>

facesVars ==
    <<face_seed, scan_results, csv_exists, faces_csv, df, status_list,
      scan_pc, holo_pc>>

twistVars == <<correction_per_step, lon_corrected, final_lon_corr, twist_pc>>

discVars == <<center_vec, radius_rad, width_rad, ring_result, disc_pc>>

v10Vars ==
    <<v10_sky, v10_pos, v10_current_bearing, v10_threshold, steps_since_vertex,
      v10_vertices, v10_best_new_ang, v10_local_max, v10_scan_k, v10_pc>>

vars ==
    <<walkerVars, poolVars, hunterVars, tracerVars, resolveVars, remapVars,
      moranVars, sigmaVars, facesVars, twistVars, discVars, v10Vars>>

notWalker ==
    <<poolVars, hunterVars, tracerVars, resolveVars, remapVars, moranVars,
      sigmaVars, facesVars, twistVars, discVars, v10Vars>>

notPool ==
    <<walkerVars, hunterVars, tracerVars, resolveVars, remapVars, moranVars,
      sigmaVars, facesVars, twistVars, discVars, v10Vars>>

notHunter ==
    <<walkerVars, poolVars, tracerVars, resolveVars, remapVars, moranVars,
      sigmaVars, facesVars, twistVars, discVars, v10Vars>>

notTracer ==
    <<walkerVars, poolVars, hunterVars, resolveVars, remapVars, moranVars,
      sigmaVars, facesVars, twistVars, discVars, v10Vars>>

notResolve ==
    <<walkerVars, poolVars, hunterVars, tracerVars, remapVars, moranVars,
      sigmaVars, facesVars, twistVars, discVars, v10Vars>>

notRemap ==
    <<walkerVars, poolVars, hunterVars, tracerVars, resolveVars, moranVars,
      sigmaVars, facesVars, twistVars, discVars, v10Vars>>

notMoran ==
    <<walkerVars, poolVars, hunterVars, tracerVars, resolveVars, remapVars,
      sigmaVars, facesVars, twistVars, discVars, v10Vars>>

notSigma ==
    <<walkerVars, poolVars, hunterVars, tracerVars, resolveVars, remapVars,
      moranVars, facesVars, twistVars, discVars, v10Vars>>

notFaces ==
    <<walkerVars, poolVars, hunterVars, tracerVars, resolveVars, remapVars,
      moranVars, sigmaVars, twistVars, discVars, v10Vars>>

notTwist ==
    <<walkerVars, poolVars, hunterVars, tracerVars, resolveVars, remapVars,
      moranVars, sigmaVars, facesVars, discVars, v10Vars>>

notDisc ==
    <<walkerVars, poolVars, hunterVars, tracerVars, resolveVars, remapVars,
      moranVars, sigmaVars, facesVars, twistVars, v10Vars>>

notV10 ==
    <<walkerVars, poolVars, hunterVars, tracerVars, resolveVars, remapVars,
      moranVars, sigmaVars, facesVars, twistVars, discVars>>

notWalkerTwist ==
    <<poolVars, hunterVars, tracerVars, resolveVars, remapVars, moranVars,
      sigmaVars, facesVars, discVars, v10Vars>>

---------------------------------------------------------------------------
(* Small arithmetic helpers.                                               *)

Abs(x) == IF x < 0 THEN -x ELSE x

Deg(d) == d * 10

Min(a, b) == IF a < b THEN a ELSE b

---------------------------------------------------------------------------
(* The signal field.  A pixel holds an intensity I and a polarisation P;   *)
(* either may be NaN.  The sky is a texture of NumCells-periodic angular   *)
(* cells seen from the walker, which shifts by one cell at the positions   *)
(* where the boundary being followed ends (every sky.period moves).        *)

\* width of one angular cell of the synthetic sky, in tenths of a degree
CellWidth == 40

\* distance between two edge ends of the synthetic sky, in moves
DipPeriod == 7

Pix(i, p) == [nan_I |-> FALSE, I |-> i, nan_P |-> FALSE, P |-> p]

NaNPix == [nan_I |-> TRUE, I |-> 0, nan_P |-> TRUE, P |-> 0]

Textures ==
    { <<Pix(2, 1), Pix(2, 1), Pix(2, 1)>>,       \* featureless: every probe ties
      <<Pix(0, 0), Pix(0, 0), Pix(0, 0)>>,       \* empty sky
      <<Pix(2, 1), Pix(0, 1), Pix(-1, 1)>>,      \* a ridge, negative intensity beside it
      <<Pix(1, 2), NaNPix, Pix(3, 1)>>,          \* masked pixels next to a ridge
      <<Pix(-3, 2), Pix(1, 1), Pix(1, 1), Pix(2, 3)>>,
      <<Pix(1, 1), Pix(5, 1), Pix(6, 1), NaNPix, Pix(0, 0)>> }

Periods == {0, DipPeriod, 5 * DipPeriod, 60 * DipPeriod}

\* void: at an edge end the signal vanishes in every direction; otherwise the
\* texture is seen shifted by one cell there
Skies == [tex : Textures, period : Periods, void : BOOLEAN]

IsDip(s, pos) == s.period > 0 /\ pos % s.period = s.period - 1

ZeroPix == Pix(0, 0)

\* hp.ang2pix of the point 0.5 deg ahead of pos in direction angle
PixelAhead(s, pos, angle) ==
    LET cell == (angle % Deg(360)) \div CellWidth
        shift == IF IsDip(s, pos) THEN 1 ELSE 0
    IN  IF IsDip(s, pos) /\ s.void
        THEN ZeroPix
        ELSE s.tex[((cell + shift) % Len(s.tex)) + 1]

\* get_signal_at: abs(val_I * val_P) with NaN read as 0, in thousandths
get_signal_at(pos, angle) ==
    LET pix == PixelAhead(sky, pos, angle)
        val_I == IF pix.nan_I THEN 0 ELSE pix.I
        val_P == IF pix.nan_P THEN 0 ELSE pix.P
    IN  Abs(val_I * val_P) * 1000

\* move: one step of STEP_SIZE along the bearing
move(pos, angle) == pos + 1

---------------------------------------------------------------------------
(* Walker constants.                                                       *)

\* MAX_STEPS = 1500
MAX_STEPS == 1500

\* INITIAL_BEARING = 204.3, in tenths of a degree
INITIAL_BEARING == 2043

---------------------------------------------------------------------------
(* The radar manoeuvre (the for loop over scan_angles).                    *)

scan_angles == [k \in 1..72 |-> (k - 1) * Deg(5)]

\* the same without the fold of the difference into [0, 180]
BackwardDiff_NoWrap(ang, bearing) ==
    LET reverse_angle == (bearing + Deg(180)) % Deg(360)
    IN  Abs(ang - reverse_angle)

\* diff = abs(ang - reverse_angle); if diff > 180: diff = 360 - diff
BackwardDiff(ang, bearing) ==
    LET reverse_angle == (bearing + Deg(180)) % Deg(360)
        diff == Abs(ang - reverse_angle)
    IN  IF diff > Deg(180) THEN Deg(360) - diff ELSE diff

\* the geometric bonus: scan_sig *= 1.2 when 60 < turn_angle < 85
Weighted(scan_sig, ang, bearing) ==
    LET t == Abs(ang - bearing)
        turn_angle == IF t > Deg(180) THEN Deg(360) - t ELSE t
    IN  IF Deg(60) < turn_angle /\ turn_angle < Deg(85)
        THEN (scan_sig * 12) \div 10
        ELSE scan_sig

\* the body of the for loop for ang = scan_angles[k]: the pair
\* <<best_new_angle, max_scan_sig>> after it
RadarStep(k, pos, bearing, best, best_sig) ==
    LET ang == scan_angles[k]
    IN  IF BackwardDiff(ang, bearing) < Deg(45)
        THEN <<best, best_sig>>
        ELSE LET scan_sig == Weighted(get_signal_at(pos, ang), ang, bearing)
             IN  IF scan_sig > best_sig
                 THEN <<ang, scan_sig>>
                 ELSE <<best, best_sig>>

---------------------------------------------------------------------------
(* The autopilot (the for loop over the five probes).                      *)

adjustments == <<Deg(-8), Deg(-4), Deg(0), Deg(4), Deg(8)>>

RECURSIVE AutopilotScan(_, _, _, _, _)
AutopilotScan(k, pos, bearing, best_adj, local_max) ==
    IF k > Len(adjustments)
    THEN best_adj
    ELSE LET adj == adjustments[k]
             check_sig == get_signal_at(pos, bearing + adj)
         IN  IF check_sig > local_max
             THEN AutopilotScan(k + 1, pos, bearing, adj, check_sig)
             ELSE AutopilotScan(k + 1, pos, bearing, best_adj, local_max)

\* the same with local_max = 0 before the loop
Autopilot_FromZero(pos, bearing) == AutopilotScan(1, pos, bearing, 0, 0)

\* best_adj = 0; local_max = -1; for adj in [-8, -4, 0, 4, 8]
Autopilot(pos, bearing) == AutopilotScan(1, pos, bearing, 0, -1000)

---------------------------------------------------------------------------
(* The values of the pool's variables in the runs of the scripts that start *)
(* no pool.                                                                *)

PoolIdle ==
    /\ script = "none"
    /\ maps = 0
    /\ inqueue = <<>>
    /\ worker = <<>>
    /\ outqueue = <<>>
    /\ received = 0
    /\ collected = <<>>
    /\ calls = <<>>
    /\ pool_pc = "idle"

---------------------------------------------------------------------------
(* The while loop of run_spider_v8 / run_spider_v9_corrected.  Rows carry  *)
(* the 'step' column of V9; V8 writes the same rows without it.            *)

Row(t, step, pos) == [type |-> t, step |-> step, pos |-> pos]

\* while total_steps < MAX_STEPS
LoopCondition(t) == t < MAX_STEPS

\* the same with the comparison steps_on_edge >= 20
EdgeEnded_AtTwenty(sig_ahead, threshold, on_edge) ==
    sig_ahead < threshold /\ on_edge >= 20

\* if sig_ahead < signal_threshold and steps_on_edge > 20
EdgeEnded(sig_ahead, threshold, on_edge) ==
    sig_ahead < threshold /\ on_edge > 20

\* the same with the comparison vertices_found > 5
PentagonClosed_Late(found) == found > 5

\* if vertices_found >= 5: break
PentagonClosed(found) == found >= 5

\* the same with the increment left out
NextTotalSteps_Stuck(t) == t

\* total_steps += 1 at the end of an iteration that did not break
NextTotalSteps(t) == t + 1

\* signal_threshold = <signal> * 0.45
ThresholdOf(sig) == (sig * 45) \div 100

WalkerStart ==
    /\ sky \in Skies
    /\ current_pos = 0
    /\ current_bearing = INITIAL_BEARING
    /\ path = <<Row("VERTEX_START", 0, 0)>>
    /\ signal_threshold = ThresholdOf(get_signal_at(0, INITIAL_BEARING))
    /\ vertices_found = 0
    /\ steps_on_edge = 0
    /\ total_steps = 0
    /\ best_new_angle = INITIAL_BEARING
    /\ max_scan_sig = -1000
    /\ scan_k = 1
    /\ pc = IF LoopCondition(0) THEN "loop" ELSE "done"

WalkerIdle ==
    /\ sky = [tex |-> <<ZeroPix>>, period |-> 0, void |-> FALSE]
    /\ current_pos = 0
    /\ current_bearing = INITIAL_BEARING
    /\ path = <<>>
    /\ signal_threshold = 0
    /\ vertices_found = 0
    /\ steps_on_edge = 0
    /\ total_steps = 0
    /\ best_new_angle = INITIAL_BEARING
    /\ max_scan_sig = -1000
    /\ scan_k = 1
    /\ pc = "idle"

\* branch B of the loop body (lines 100-110): the edge ended, the radar starts
RadarManoeuvre ==
    /\ pc = "loop"
    /\ EdgeEnded(get_signal_at(current_pos, current_bearing), signal_threshold,
                 steps_on_edge)
    /\ best_new_angle' = current_bearing
    /\ max_scan_sig' = -1000
    /\ scan_k' = 1
    /\ pc' = "scan"
    /\ UNCHANGED <<sky, current_pos, current_bearing, signal_threshold,
                   vertices_found, steps_on_edge, total_steps, path>>
    /\ UNCHANGED notWalker

\* one pass of the for loop over scan_angles (lines 112-128)
RadarProbe ==
    /\ pc = "scan"
    /\ scan_k <= Len(scan_angles)
    /\ \E r \in {RadarStep(scan_k, current_pos, current_bearing, best_new_angle,
                           max_scan_sig)} :
           /\ best_new_angle' = r[1]
           /\ max_scan_sig' = r[2]
    /\ scan_k' = scan_k + 1
    /\ UNCHANGED <<sky, current_pos, current_bearing, signal_threshold,
                   vertices_found, steps_on_edge, total_steps, path, pc>>
    /\ UNCHANGED notWalker

\* after the for loop (lines 130-143, 163-166): register the vertex, update the
\* state, break on the 5th vertex; otherwise the end of the iteration
RegisterVertex ==
    /\ pc = "scan"
    /\ scan_k > Len(scan_angles)
    /\ path' = Append(path, Row("VERTEX_FOUND", total_steps, current_pos))
    /\ vertices_found' = vertices_found + 1
    /\ current_bearing' = best_new_angle
    /\ steps_on_edge' = 0
    /\ signal_threshold' = ThresholdOf(max_scan_sig)
    /\ IF PentagonClosed(vertices_found')
       THEN /\ total_steps' = total_steps
            /\ pc' = "done"
       ELSE /\ total_steps' = NextTotalSteps(total_steps)
            /\ pc' = IF LoopCondition(total_steps') THEN "loop" ELSE "done"
    /\ UNCHANGED <<sky, current_pos, best_new_angle, max_scan_sig, scan_k>>
    /\ UNCHANGED notWalker

\* branch C of the loop body: walk and micro-correct
WalkStep ==
    /\ pc = "loop"
    /\ ~EdgeEnded(get_signal_at(current_pos, current_bearing), signal_threshold,
                  steps_on_edge)
    /\ current_bearing' = current_bearing + Autopilot(current_pos, current_bearing)
    /\ steps_on_edge' = steps_on_edge + 1
    /\ current_pos' = move(current_pos, current_bearing')
    /\ path' = Append(path, Row("PATH", total_steps, current_pos'))
    /\ total_steps' = NextTotalSteps(total_steps)
    /\ pc' = IF LoopCondition(total_steps') THEN "loop" ELSE "done"
    /\ UNCHANGED <<sky, signal_threshold, vertices_found, best_new_angle,
                   max_scan_sig, scan_k>>
    /\ UNCHANGED notWalker

---------------------------------------------------------------------------
(* The radar manoeuvre on its own: the walker stands at an edge end with   *)
(* an arbitrary accumulated bearing and runs the for loop of the radar.    *)

\* how far outside [0, 360) the sampled bearings reach, in scan steps of 5 deg
RadarSpan == 18

\* whole multiples of 5 deg and bearings with the fraction of INITIAL_BEARING
RadarBearings ==
    {Deg(5 * k) + f : k \in (0 - RadarSpan)..(72 + RadarSpan), f \in {0, 43}}

RadarSkies == {s \in Skies : s.period = DipPeriod}

RadarStart ==
    /\ sky \in RadarSkies
    /\ current_pos \in {0, DipPeriod - 1}
    /\ current_bearing \in RadarBearings
    /\ path = <<Row("VERTEX_START", 0, 0)>>
    /\ signal_threshold = ThresholdOf(get_signal_at(0, INITIAL_BEARING))
    /\ vertices_found = 0
    /\ steps_on_edge = 0
    /\ total_steps = 0
    /\ best_new_angle = current_bearing
    /\ max_scan_sig = -1000
    /\ scan_k = 1
    /\ pc = "scan"

---------------------------------------------------------------------------
(* The process pool of the three scans: Pool(...).imap_unordered(f, tasks,  *)
(* chunksize).  The task list is cut into chunks; an idle worker takes the *)
(* next chunk, calls f on its tasks in order and sends the chunk's results *)
(* back; the parent's for loop takes the results in arrival order.         *)
(* A task's result is a list of rows: process_point of the line hunter     *)
(* returns a list; a dict of the other two scans is a one-row list and     *)
(* None the empty list, which are exactly the values `if res:` tells apart.*)

\* number of worker processes (cpu_count())
NumWorkers == 2

\* number of tasks beyond one full chunk
PoolTasks == 3

\* the contents of the maps, as the index of one of a few synthetic skies
MaxMapId == 2

Scripts == {"line_hunter", "trace_vertex", "fractal"}

Workers == 1..NumWorkers

\* chunksize=20, chunksize=5, and the default chunksize of imap_unordered
chunksize(sc) ==
    CASE sc = "line_hunter" -> 20
      [] sc = "trace_vertex" -> 5
      [] sc = "fractal" -> 1

\* len(tasks)
NumTasks(sc) == IF sc = "fractal" THEN PoolTasks ELSE chunksize(sc) + PoolTasks

\* what the maps yield for task t: a deterministic function of the maps and of
\* the task's arguments
Strength(m, t) == (t * (m + 2) + m) % 4

\* the task function (process_point, process_ring_memory_optimized) on task t
TaskFunction(sc, m, t) ==
    IF sc = "line_hunter"
    THEN [j \in 1..(Strength(m, t) % 3) |->
             [center_idx |-> t, angle |-> 2 * j, corr_IP |-> 16 + Strength(m, t)]]
    ELSE IF Strength(m, t) = 0
         THEN <<>>
         ELSE <<[center_idx |-> t, corr_IP |-> 8 + Strength(m, t)]>>

\* Pool._get_tasks: the task list cut into chunks of chunksize
Chunks(sc) ==
    LET n == NumTasks(sc)
        c == chunksize(sc)
    IN  [i \in 1..((n + c - 1) \div c) |->
            [k \in 1..(Min(i * c, n) - (i - 1) * c) |-> (i - 1) * c + k]]

\* the same with the chunk left on the queue
AfterGet_Kept(q) == q

\* inqueue.get(): the chunk taken leaves the queue
AfterGet(q) == Tail(q)

\* if res: all_hits.extend(res) / traces.append(res) / results.append(res)
Collect(sofar, res) == IF res # <<>> THEN sofar \o res ELSE sofar

IdleWorker == [busy |-> FALSE, chunk |-> <<>>, out |-> <<>>]

PoolStart ==
    /\ script \in Scripts
    /\ maps \in 0..MaxMapId
    /\ inqueue = Chunks(script)
    /\ worker = [w \in Workers |-> IdleWorker]
    /\ outqueue = <<>>
    /\ received = 0
    /\ collected = <<>>
    /\ calls = [t \in 1..NumTasks(script) |-> 0]
    /\ pool_pc = "iterating"

\* a worker takes the next chunk
WorkerGet(w) ==
    /\ pool_pc = "iterating"
    /\ ~worker[w].busy
    /\ inqueue # <<>>
    /\ worker' = [worker EXCEPT ![w] =
                      [busy |-> TRUE, chunk |-> Head(inqueue), out |-> <<>>]]
    /\ inqueue' = AfterGet(inqueue)
    /\ UNCHANGED <<script, maps, outqueue, received, collected, calls, pool_pc>>
    /\ UNCHANGED notPool

\* a worker calls the task function on the next task of its chunk
WorkerRun(w) ==
    /\ pool_pc = "iterating"
    /\ worker[w].busy
    /\ worker[w].chunk # <<>>
    /\ LET t == Head(worker[w].chunk)
       IN  /\ worker' = [worker EXCEPT
                  ![w].chunk = Tail(@),
                  ![w].out = Append(@, TaskFunction(script, maps, t))]
           /\ calls' = [calls EXCEPT ![t] = @ + 1]
    /\ UNCHANGED <<script, maps, inqueue, outqueue, received, collected, pool_pc>>
    /\ UNCHANGED notPool

\* a worker sends the results of its finished chunk
WorkerPut(w) ==
    /\ pool_pc = "iterating"
    /\ worker[w].busy
    /\ worker[w].chunk = <<>>
    /\ outqueue' = outqueue \o worker[w].out
    /\ worker' = [worker EXCEPT ![w] = IdleWorker]
    /\ UNCHANGED <<script, maps, inqueue, received, collected, calls, pool_pc>>
    /\ UNCHANGED notPool

\* one pass of `for res in pool.imap_unordered(...)`
MainCollect ==
    /\ pool_pc = "iterating"
    /\ outqueue # <<>>
    /\ collected' = Collect(collected, Head(outqueue))
    /\ outqueue' = Tail(outqueue)
    /\ received' = received + 1
    /\ UNCHANGED <<script, maps, inqueue, worker, calls, pool_pc>>
    /\ UNCHANGED notPool

\* the iterator is exhausted: the with block ends and the CSV is written
PoolClose ==
    /\ pool_pc = "iterating"
    /\ received = NumTasks(script)
    /\ pool_pc' = "saved"
    /\ UNCHANGED <<script, maps, inqueue, worker, outqueue, received, collected,
                   calls>>
    /\ UNCHANGED notPool

---------------------------------------------------------------------------
(* The line hunter (3_main_line_hunter.py).  main hands the scan centres   *)
(* to process_point; the model takes one centre per ring of the NSIDE_SCAN *)
(* grid, in index order, which is one of the orders the pool allows.       *)
(* Latitudes are integers in thousandths of a degree, truncated towards    *)
(* zero, so that abs(lat) < 30 is decided as on the floats.                *)

\* MIN_LAT_FILTER = 30.0
MIN_LAT_FILTER == 30000

\* ANGLE_STEP = 2 of the line hunter
Hunter_ANGLE_STEP == 2

\* rounding of arccos/degrees at a centre, in thousandths of a degree
LatError == 1

\* 90 - degrees(arccos(z)) of the 31 rings of the NSIDE_SCAN = 8 grid
RingLatitude ==
    <<84149, 78284, 72387, 66443, 60434, 54340, 48141, 41810, 35685, 30000,
      24624, 19471, 14477, 9594, 4780, 0, -4780, -9594, -14477, -19471,
      -24624, -30000, -35685, -41810, -48141, -54340, -60434, -66443,
      -72387, -78284, -84149>>

\* len(pixels) of the rectangle at centre r rotated by angle a
HunterPixelCount(r, a) == 19 + ((r + a \div 2) % 3)

\* np.std(vals_I) > 0 and np.std(vals_P) > 0 fails on the maps m
HunterFlat(m, r, a) == (a \div 2 + r + m) % 11 = 0

\* pearsonr(vals_I, vals_P) in hundredths
HunterCorr(m, r, a) == ((r * 7 + (a \div 2) * 5 + m * 13) % 37) - 18

\* the rows process_point appends at angle a
HunterHit(m, r, a) ==
    /\ HunterPixelCount(r, a) >= 20
    /\ ~HunterFlat(m, r, a)
    /\ Abs(HunterCorr(m, r, a)) > 15

\* the same filter without abs()
InGalaxy_North(lat) == 0 <= lat /\ lat < MIN_LAT_FILTER

\* if abs(lat_deg) < MIN_LAT_FILTER
InGalaxy(lat) == Abs(lat) < MIN_LAT_FILTER

HunterStart ==
    /\ hunter_maps \in 0..MaxMapId
    /\ lat_error \in (0 - LatError)..LatError
    /\ tasks_done = 0
    /\ hunter_idx = 0
    /\ lat_deg = 0
    /\ sweep_angle = 0
    /\ rects = 0
    /\ results = <<>>
    /\ all_hits = <<>>
    /\ csv = <<>>
    /\ hunter_pc = "main"

HunterIdle ==
    /\ hunter_maps = 0
    /\ lat_error = 0
    /\ tasks_done = 0
    /\ hunter_idx = 0
    /\ lat_deg = 0
    /\ sweep_angle = 0
    /\ rects = 0
    /\ results = <<>>
    /\ all_hits = <<>>
    /\ csv = <<>>
    /\ hunter_pc = "idle"

\* process_point is called on the next centre (lines 63-72)
HunterCall ==
    /\ hunter_pc = "main"
    /\ tasks_done < Len(RingLatitude)
    /\ hunter_idx' = tasks_done + 1
    /\ lat_deg' = RingLatitude[tasks_done + 1] + lat_error
    /\ results' = <<>>
    /\ rects' = 0
    /\ sweep_angle' = 0
    /\ hunter_pc' = "filter"
    /\ UNCHANGED <<hunter_maps, lat_error, tasks_done, all_hits, csv>>
    /\ UNCHANGED notHunter

\* the latitude filter (lines 75-76)
HunterFilter ==
    /\ hunter_pc = "filter"
    /\ hunter_pc' = IF InGalaxy(lat_deg) THEN "returned" ELSE "sweep"
    /\ UNCHANGED <<hunter_maps, lat_error, tasks_done, hunter_idx, lat_deg,
                   sweep_angle, rects, results, all_hits, csv>>
    /\ UNCHANGED notHunter

\* one pass of `for angle in range(0, 180, ANGLE_STEP)` (lines 80-103)
HunterSweep ==
    /\ hunter_pc = "sweep"
    /\ sweep_angle < 180
    /\ rects' = rects + 1
    /\ results' =
           IF HunterHit(hunter_maps, hunter_idx, sweep_angle)
           THEN Append(results,
                       [center_idx |-> hunter_idx, lat |-> lat_deg,
                        angle |-> sweep_angle,
                        corr_IP |-> HunterCorr(hunter_maps, hunter_idx, sweep_angle),
                        pixel_count |-> HunterPixelCount(hunter_idx, sweep_angle)])
           ELSE results
    /\ sweep_angle' = sweep_angle + Hunter_ANGLE_STEP
    /\ UNCHANGED <<hunter_maps, lat_error, tasks_done, hunter_idx, lat_deg,
                   all_hits, csv, hunter_pc>>
    /\ UNCHANGED notHunter

\* return results (line 105)
HunterReturn ==
    /\ hunter_pc = "sweep"
    /\ sweep_angle >= 180
    /\ hunter_pc' = "returned"
    /\ UNCHANGED <<hunter_maps, lat_error, tasks_done, hunter_idx, lat_deg,
                   sweep_angle, rects, results, all_hits, csv>>
    /\ UNCHANGED notHunter

\* if res: all_hits.extend(res) (lines 136-138)
HunterCollect ==
    /\ hunter_pc = "returned"
    /\ all_hits' = Collect(all_hits, results)
    /\ tasks_done' = tasks_done + 1
    /\ hunter_pc' = "main"
    /\ UNCHANGED <<hunter_maps, lat_error, hunter_idx, lat_deg, sweep_angle, rects,
                   results, csv>>
    /\ UNCHANGED notHunter

\* if all_hits: df.to_csv(OUTPUT_FILE) (lines 140-142)
HunterSave ==
    /\ hunter_pc = "main"
    /\ tasks_done = Len(RingLatitude)
    /\ csv' = IF all_hits # <<>> THEN all_hits ELSE csv
    /\ hunter_pc' = "saved"
    /\ UNCHANGED <<hunter_maps, lat_error, tasks_done, hunter_idx, lat_deg,
                   sweep_angle, rects, results, all_hits>>
    /\ UNCHANGED notHunter

---------------------------------------------------------------------------
(* The vertex tracer (3_trace_vertex.py): process_point on one centre of   *)
(* the micro-grid.  Line lengths are in tenths of a degree.                *)

\* CORR_THRESHOLD = 0.08
CORR_THRESHOLD == 8

\* ANGLE_STEP = 1 of the vertex tracer
Tracer_ANGLE_STEP == 1

LINE_LENGTHS == <<40, 80>>

\* number of centres of the micro-grid that are tried
TracerCentres == 3

\* the strongest correlation the maps m hold around centre c
TracerAmplitudes == <<0, 4, 8, 9, 30>>

TracerAmp(m, c) == TracerAmplitudes[((c + 2 * m) % 5) + 1]

\* len(pixels) of the rectangle of length LINE_LENGTHS[li] rotated by a
TracerPixelCount(c, a, li) == IF li = 1 THEN 18 + ((a + c) % 4) ELSE 40

\* np.std(vals_I) > 1e-6 and np.std(vals_P) > 1e-6 fails
TracerFlat(m, c, a, li) == (a + li + m) % 13 = 0

\* pearsonr(vals_I, vals_P) in hundredths
TracerCorr(m, c, a, li) ==
    LET A == TracerAmp(m, c)
    IN  ((a * 7 + li * 3 + c) % (2 * A + 1)) - A

\* the candidate (a, li) reaches the comparison of line 91
TracerEvaluated(m, c, a, li) ==
    /\ TracerPixelCount(c, a, li) >= 20
    /\ ~TracerFlat(m, c, a, li)

\* the same comparison with >=
Better_OrEqual(corr, best) == Abs(corr) >= Abs(best)

\* if abs(corr) > abs(best_corr)
Better(corr, best) == Abs(corr) > Abs(best)

\* the dict of lines 93-98
TracerLine(m, c, a, li) ==
    [center_idx |-> c, angle |-> a, length |-> LINE_LENGTHS[li],
     corr_IP |-> TracerCorr(m, c, a, li)]

TracerStart ==
    /\ tracer_maps \in 0..MaxMapId
    /\ tracer_idx \in 1..TracerCentres
    /\ trace_angle = 0
    /\ trace_len = 1
    /\ best_corr = 0
    /\ best_line = <<>>
    /\ trace_result = <<>>
    /\ tracer_pc = "sweep"

TracerIdle ==
    /\ tracer_maps = 0
    /\ tracer_idx = 0
    /\ trace_angle = 0
    /\ trace_len = 1
    /\ best_corr = 0
    /\ best_line = <<>>
    /\ trace_result = <<>>
    /\ tracer_pc = "idle"

\* one pass of the inner loop `for length in LINE_LENGTHS` (lines 77-98)
TracerProbe ==
    /\ tracer_pc = "sweep"
    /\ trace_angle < 180
    /\ LET corr == TracerCorr(tracer_maps, tracer_idx, trace_angle, trace_len)
           keep == /\ TracerEvaluated(tracer_maps, tracer_idx, trace_angle,
                                      trace_len)
                   /\ Better(corr, best_corr)
       IN  /\ best_corr' = IF keep THEN corr ELSE best_corr
           /\ best_line' =
                  IF keep
                  THEN <<TracerLine(tracer_maps, tracer_idx, trace_angle,
                                    trace_len)>>
                  ELSE best_line
    /\ IF trace_len < Len(LINE_LENGTHS)
       THEN trace_len' = trace_len + 1 /\ trace_angle' = trace_angle
       ELSE trace_len' = 1 /\ trace_angle' = trace_angle + Tracer_ANGLE_STEP
    /\ UNCHANGED <<tracer_maps, tracer_idx, trace_result, tracer_pc>>
    /\ UNCHANGED notTracer

\* lines 100-102
TracerReturn ==
    /\ tracer_pc = "sweep"
    /\ trace_angle >= 180
    /\ trace_result' =
           IF best_line # <<>> /\ Abs(best_corr) > CORR_THRESHOLD
           THEN best_line
           ELSE <<>>
    /\ tracer_pc' = "returned"
    /\ UNCHANGED <<tracer_maps, tracer_idx, trace_angle, trace_len, best_corr,
                   best_line>>
    /\ UNCHANGED notTracer

---------------------------------------------------------------------------
(* resolve_input_file of 1_main_fractal.py.  A file name is a sequence of  *)
(* characters; glob.glob returns the names in an arbitrary order.          *)

\* largest number of files the glob returns
MaxFiles == 3

DotFits == <<".", "f", "i", "t", "s">>

Sevem == <<"s", "e", "v", "e", "m">>

Smica == <<"s", "m", "i", "c", "a">>

FileNames ==
    { <<"s", "e", "v", "e", "m", ".", "f", "i", "t", "s">>,
      <<"S", "E", "V", "E", "M", ".", "F", "I", "T", "S">>,
      <<"s", "m", "i", "c", "a", ".", "f", "i", "t", "s">>,
      <<"S", "m", "i", "c", "a", ".", "f", "i", "t", "s">>,
      <<"s", "m", "i", "c", "a", "_", "s", "e", "v", "e", "m", ".", "f", "i", "t", "s">>,
      <<"n", "i", "l", "c", ".", "f", "i", "t", "s">>,
      <<"s", "e", "v", "e", "n", ".", "f", "i", "t", "s">>,
      <<"s", "e", "v", "e", "m", ".", "t", "x", "t">>,
      <<"f", "i", "t", "s">> }

UpperToLower ==
    [c \in {"S", "E", "V", "M", "F", "I", "T"} |->
        CASE c = "S" -> "s" [] c = "E" -> "e" [] c = "V" -> "v"
          [] c = "M" -> "m" [] c = "F" -> "f" [] c = "I" -> "i"
          [] c = "T" -> "t"]

\* str.lower()
lower(f) ==
    [i \in DOMAIN f |->
        IF f[i] \in DOMAIN UpperToLower THEN UpperToLower[f[i]] ELSE f[i]]

\* str.endswith(suffix)
endswith(f, suffix) ==
    /\ Len(f) >= Len(suffix)
    /\ SubSeq(f, Len(f) - Len(suffix) + 1, Len(f)) = suffix

\* `sub in f`
contains(sub, f) ==
    \E i \in 1..(Len(f) - Len(sub) + 1) : SubSeq(f, i, i + Len(sub) - 1) = sub

\* files = [f for f in files if f.lower().endswith('.fits')]
fits_files(found) == SelectSeq(found, LAMBDA f : endswith(lower(f), DotFits))

\* the same list without lower()
sevem_files_CaseSensitive(found) == SelectSeq(found, LAMBDA f : contains(Sevem, f))

\* sevem_files = [f for f in files if 'sevem' in f.lower()]
sevem_files(found) == SelectSeq(found, LAMBDA f : contains(Sevem, lower(f)))

\* smica_files = [f for f in files if 'smica' in f.lower()]
smica_files(found) == SelectSeq(found, LAMBDA f : contains(Smica, lower(f)))

\* the lists glob.glob can return: distinct names in any order
GlobResults ==
    UNION {{g \in [1..n -> FileNames] : \A i, j \in 1..n : g[i] = g[j] => i = j} :
           n \in 0..MaxFiles}

ResolveStart ==
    /\ files \in GlobResults
    /\ selected = <<>>
    /\ exit_status = 0
    /\ resolve_pc = "call"

ResolveIdle ==
    /\ files = <<>>
    /\ selected = <<>>
    /\ exit_status = 0
    /\ resolve_pc = "idle"

\* resolve_input_file (lines 141-162)
resolve_input_file ==
    /\ resolve_pc = "call"
    /\ LET kept == fits_files(files)
       IN  IF kept = <<>>
           THEN /\ exit_status' = 1
                /\ resolve_pc' = "exited"
                /\ selected' = selected
           ELSE /\ selected' =
                       IF sevem_files(kept) # <<>> THEN sevem_files(kept)[1]
                       ELSE IF smica_files(kept) # <<>> THEN smica_files(kept)[1]
                       ELSE kept[1]
                /\ resolve_pc' = "returned"
                /\ exit_status' = exit_status
    /\ UNCHANGED files
    /\ UNCHANGED notResolve

---------------------------------------------------------------------------
(* The index remapping of 1_main_fractal.py: the rings of the geometric    *)
(* scan, the unique pixels, the reduced arrays, the remapped indices and   *)
(* the read of a worker.  Indices are 0-based as in the source.            *)

\* NSIDE of the map that is read
RemapNside == 4

\* hp.nside2npix(nside)
npix == 12 * RemapNside * RemapNside

\* number of (radius, centre) pairs of the geometric scan that are tried
RingCandidates == 2

\* pixels a ring has beyond the 50 that are too few
RingExtra == 3

\* get_ring_pixels: sorted pixel indices (np.setdiff1d)
RingPixels(start, stride, size) == [i \in 1..size |-> start + (i - 1) * stride]

\* dense and sparse rings of 50 pixels, 51 pixels and more
RingShapes == {<<1, 50>>, <<1, 51>>, <<3, 51>>, <<3, 50 + RingExtra>>}

Rings ==
    {RingPixels(start, shape[1], shape[2]) : start \in {0, 7}, shape \in RingShapes}

\* the fields that are zero all over the sky in the maps m: maps 0 hold no
\* polarisation, maps 1 no Q, maps 2 no U
ZeroFields(m) ==
    CASE m = 0 -> {"Q", "U"}
      [] m = 1 -> {"Q"}
      [] m = 2 -> {"U"}
      [] OTHER -> {}

\* the full-sky map of field I, Q or U
FullMap(m, field, p) ==
    IF field \in ZeroFields(m)
    THEN 0
    ELSE LET f == CASE field = "I" -> 2 [] field = "Q" -> 3 [] field = "U" -> 5
         IN  (((p + 1) * (f + m)) % 13) - 6

\* arr[i] for a 0-based index
At(arr, i) == arr[i + 1]

\* np.concatenate
RECURSIVE concatenate(_)
concatenate(arrays) ==
    IF arrays = <<>> THEN <<>> ELSE Head(arrays) \o concatenate(Tail(arrays))

\* np.unique: the distinct values in ascending order
unique(flat) ==
    LET present == {flat[i] : i \in DOMAIN flat}
    IN  SelectSeq([i \in 1..npix |-> i - 1], LAMBDA p : p \in present)

\* np.searchsorted(a, v, side='right')
searchsorted_Right(a, v) ==
    [i \in DOMAIN v |-> Cardinality({j \in DOMAIN a : a[j] <= v[i]})]

\* np.searchsorted(a, v): the leftmost insertion points
searchsorted(a, v) ==
    [i \in DOMAIN v |-> Cardinality({j \in DOMAIN a : a[j] < v[i]})]

\* map[unique_pixels]
Extracted(m, field, pixels) == [i \in DOMAIN pixels |-> FullMap(m, field, pixels[i])]

\* np.all(arr == 0)
AllZero(arr) == \A i \in DOMAIN arr : arr[i] = 0

\* the same validation with `and`
ValidationFails_Both(data) == AllZero(data.Q) /\ AllZero(data.U)

\* if np.all(extracted_data['Q'] == 0) or np.all(extracted_data['U'] == 0)
ValidationFails(data) == AllZero(data.Q) \/ AllZero(data.U)

\* shared[idxs]; an index out of range raises IndexError
Take(arr, idxs) ==
    IF \A i \in DOMAIN idxs : idxs[i] < Len(arr)
    THEN [i \in DOMAIN idxs |-> At(arr, idxs[i])]
    ELSE <<>>

RemapStart ==
    /\ remap_maps \in 0..(MaxMapId + 2)
    /\ candidates \in [1..RingCandidates -> Rings]
    /\ cand_i = 1
    /\ ring_pixel_map = <<>>
    /\ unique_pixels = <<>>
    /\ extracted_data = [I |-> <<>>, Q |-> <<>>, U |-> <<>>]
    /\ remap_tasks = <<>>
    /\ ring_vals = <<>>
    /\ fractal_report = <<>>
    /\ fractal_exit = 0
    /\ fractal_csv = [written |-> FALSE]
    /\ remap_pc = "scan"

RemapIdle ==
    /\ remap_maps = 0
    /\ candidates = <<>>
    /\ cand_i = 1
    /\ ring_pixel_map = <<>>
    /\ unique_pixels = <<>>
    /\ extracted_data = [I |-> <<>>, Q |-> <<>>, U |-> <<>>]
    /\ remap_tasks = <<>>
    /\ ring_vals = <<>>
    /\ fractal_report = <<>>
    /\ fractal_exit = 0
    /\ fractal_csv = [written |-> FALSE]
    /\ remap_pc = "idle"

\* one pass of the geometric scan (lines 190-200)
RegisterRing ==
    /\ remap_pc = "scan"
    /\ cand_i <= Len(candidates)
    /\ ring_pixel_map' =
           IF Len(candidates[cand_i]) > 50
           THEN Append(ring_pixel_map, candidates[cand_i])
           ELSE ring_pixel_map
    /\ cand_i' = cand_i + 1
    /\ UNCHANGED <<remap_maps, candidates, unique_pixels, extracted_data,
                   remap_tasks, ring_vals, remap_pc>>
    /\ UNCHANGED fractalOutcome
    /\ UNCHANGED notRemap

\* lines 206-208; np.concatenate of an empty list raises ValueError
Consolidate ==
    /\ remap_pc = "scan"
    /\ cand_i > Len(candidates)
    /\ IF ring_pixel_map = <<>>
       THEN /\ remap_pc' = "ValueError"
            /\ unique_pixels' = unique_pixels
       ELSE /\ unique_pixels' = unique(concatenate(ring_pixel_map))
            /\ remap_pc' = "load"
    /\ UNCHANGED <<remap_maps, candidates, cand_i, ring_pixel_map,
                   extracted_data, remap_tasks, ring_vals>>
    /\ UNCHANGED fractalOutcome
    /\ UNCHANGED notRemap

\* the extraction and its validation (lines 244-292)
ExtractData ==
    /\ remap_pc = "load"
    /\ LET data == [I |-> Extracted(remap_maps, "I", unique_pixels),
                    Q |-> Extracted(remap_maps, "Q", unique_pixels),
                    U |-> Extracted(remap_maps, "U", unique_pixels)]
       IN  /\ extracted_data' = data
           /\ IF ValidationFails(data)
              THEN /\ fractal_report' =
                          Append(fractal_report,
                                 "CRITICAL ERROR: Polarization data is all zeros.")
                   /\ fractal_exit' = 1
                   /\ remap_pc' = "exited"
              ELSE /\ remap_pc' = "remap"
                   /\ UNCHANGED <<fractal_report, fractal_exit>>
    /\ UNCHANGED fractal_csv
    /\ UNCHANGED <<remap_maps, candidates, cand_i, ring_pixel_map,
                   unique_pixels, remap_tasks, ring_vals>>
    /\ UNCHANGED notRemap

\* one pass of the loop that prepares the tasks (lines 306-309)
RemapRing ==
    /\ remap_pc = "remap"
    /\ Len(remap_tasks) < Len(ring_pixel_map)
    /\ LET original_pixels == ring_pixel_map[Len(remap_tasks) + 1]
       IN  remap_tasks' =
               Append(remap_tasks, searchsorted(unique_pixels, original_pixels))
    /\ UNCHANGED <<remap_maps, candidates, cand_i, ring_pixel_map,
                   unique_pixels, extracted_data, ring_vals, remap_pc>>
    /\ UNCHANGED fractalOutcome
    /\ UNCHANGED notRemap

\* the pool starts with the reduced arrays as shared_I/Q/U (lines 311-320)
StartWorkers ==
    /\ remap_pc = "remap"
    /\ Len(remap_tasks) = Len(ring_pixel_map)
    /\ remap_pc' = "pool"
    /\ UNCHANGED <<remap_maps, candidates, cand_i, ring_pixel_map,
                   unique_pixels, extracted_data, remap_tasks, ring_vals>>
    /\ UNCHANGED fractalOutcome
    /\ UNCHANGED notRemap

\* a worker reads the values of the next ring (lines 86-94)
ReadRing ==
    /\ remap_pc = "pool"
    /\ Len(ring_vals) < Len(remap_tasks)
    /\ LET idxs == remap_tasks[Len(ring_vals) + 1]
       IN  ring_vals' =
               Append(ring_vals,
                      [I |-> Take(extracted_data.I, idxs),
                       Q |-> Take(extracted_data.Q, idxs),
                       U |-> Take(extracted_data.U, idxs)])
    /\ UNCHANGED <<remap_maps, candidates, cand_i, ring_pixel_map,
                   unique_pixels, extracted_data, remap_tasks, remap_pc>>
    /\ UNCHANGED fractalOutcome
    /\ UNCHANGED notRemap

\* the iterator is exhausted and the CSV is written (lines 321-329)
SaveResults ==
    /\ remap_pc = "pool"
    /\ Len(ring_vals) = Len(remap_tasks)
    /\ fractal_csv' = [written |-> TRUE]
    /\ remap_pc' = "saved"
    /\ UNCHANGED <<remap_maps, candidates, cand_i, ring_pixel_map,
                   unique_pixels, extracted_data, remap_tasks, ring_vals,
                   fractal_report, fractal_exit>>
    /\ UNCHANGED notRemap

---------------------------------------------------------------------------
(* The Moran significance test (4_calc_sigma_significance.py).  A Moran    *)
(* index is kept as the numerator of the source's quotient multiplied by   *)
(* the positive factor that every shuffle of the same data shares, so two  *)
(* indices compare as in the source; nan marks the 0/0 of constant data.   *)

\* N_SIMULATIONS = 500000 in the source; the loop is the same for every N
N_SIMULATIONS == 4

\* the corr_IP column of the trace, four points on a closed chain
MoranData ==
    {<<0, 0, 0, 0>>, <<2, 2, 0, 0>>, <<2, 0, 2, 0>>, <<0, 1, 2, 3>>,
     <<1, 0, 0, 0>>}

RECURSIVE SeqSum(_)
SeqSum(s) == IF s = <<>> THEN 0 ELSE Head(s) + SeqSum(Tail(s))

\* the nearest neighbours of point i: the next and the previous of the chain
neighbor_indices(n) == [i \in 1..n |-> <<(i % n) + 1, ((i - 2) % n) + 1>>]

\* fast_moran (lines 40-56)
fast_moran(values) ==
    LET n == Len(values)
        y == [i \in 1..n |-> n * values[i] - SeqSum(values)]
        nb == neighbor_indices(n)
        sum_neighbors == [i \in 1..n |-> y[nb[i][1]] + y[nb[i][2]]]
    IN  IF \A i \in 1..n : y[i] = 0
        THEN [nan |-> TRUE, num |-> 0]
        ELSE [nan |-> FALSE,
              num |-> SeqSum([i \in 1..n |-> y[i] * sum_neighbors[i]])]

\* r >= real on floats: false when either side is NaN
GreaterEqual(r, real) == ~r.nan /\ ~real.nan /\ r.num >= real.num

\* the orders np.random.shuffle can leave an array in
Shuffles(values) ==
    LET n == Len(values)
        perms == {p \in [1..n -> 1..n] : \A i, j \in 1..n : p[i] = p[j] => i = j}
    IN  {[i \in 1..n |-> values[p[i]]] : p \in perms}

\* the proportion without the correction
PValue_Uncorrected(higher, total) == [num |-> higher, den |-> total]

\* p_value = (n_higher + 1) / (N_SIMULATIONS + 1), kept as a fraction
PValue(higher, total) == [num |-> higher + 1, den |-> total + 1]

MoranStart ==
    /\ correlations \in MoranData
    /\ shuffled_corrs = correlations
    /\ real_moran = [nan |-> TRUE, num |-> 0]
    /\ random_morans = <<>>
    /\ n_higher = 0
    /\ p_value = [num |-> 0, den |-> 1]
    /\ moran_pc = "load"

MoranIdle ==
    /\ correlations = <<>>
    /\ shuffled_corrs = <<>>
    /\ real_moran = [nan |-> TRUE, num |-> 0]
    /\ random_morans = <<>>
    /\ n_higher = 0
    /\ p_value = [num |-> 0, den |-> 1]
    /\ moran_pc = "idle"

\* real_moran = fast_moran(correlations, ...) (line 95)
MoranReal ==
    /\ moran_pc = "load"
    /\ real_moran' = fast_moran(correlations)
    /\ moran_pc' = "loop"
    /\ UNCHANGED <<correlations, shuffled_corrs, random_morans, n_higher,
                   p_value>>
    /\ UNCHANGED notMoran

\* one pass of the Monte Carlo loop (lines 109-113)
MoranSimulate ==
    /\ moran_pc = "loop"
    /\ Len(random_morans) < N_SIMULATIONS
    /\ \E s \in Shuffles(shuffled_corrs) :
           /\ shuffled_corrs' = s
           /\ random_morans' = Append(random_morans, fast_moran(s))
    /\ UNCHANGED <<correlations, real_moran, n_higher, p_value, moran_pc>>
    /\ UNCHANGED notMoran

\* lines 131-132
MoranReport ==
    /\ moran_pc = "loop"
    /\ Len(random_morans) = N_SIMULATIONS
    /\ \E higher \in {Cardinality({i \in DOMAIN random_morans :
                                      GreaterEqual(random_morans[i], real_moran)})} :
           /\ n_higher' = higher
           /\ p_value' = PValue(higher, N_SIMULATIONS)
    /\ moran_pc' = "reported"
    /\ UNCHANGED <<correlations, shuffled_corrs, real_moran, random_morans>>
    /\ UNCHANGED notMoran

---------------------------------------------------------------------------
(* The Monte Carlo sigma test (12_monte_carlo_sigma_test.py).  Sigma is an *)
(* integer in thousandths (6.0 = 6000).  norm.isf is kept to the half-     *)
(* sigma marks: a value strictly between two marks is the lower mark plus  *)
(* one thousandth, so that it compares with 3.0, 5.0 and 6.0 as the float  *)
(* does.                                                                   *)

\* n_sims = 10000000
n_sims == 10000000

\* the match counts 0..SigmaHits are tried, and those next to every mark
SigmaHits == 40

\* norm.isf(0) and -norm.isf(1)
Infinity == 1000000

\* floor(n_sims * norm.sf(t / 2)) for t = 0..12
TailCount ==
    <<5000000, 3085375, 1586552, 668072, 227501, 62096, 13498, 2326, 316, 33,
      2, 0, 0>>

\* norm.isf(p) for p = hits / n_sims in the upper half, 0 < p < 1/2
UpperIsf(hits) ==
    LET marks == {t \in 1..Len(TailCount) : hits <= TailCount[t]}
        t == CHOOSE m \in marks : \A o \in marks : o <= m
    IN  500 * (t - 1) + 1

\* stats.norm.isf(p_value)
norm_isf(p) ==
    CASE p.num = 0 -> Infinity
      [] p.num = p.den -> 0 - Infinity
      [] 2 * p.num = p.den -> 0
      [] 2 * p.num < p.den -> UpperIsf(p.num)
      [] OTHER -> 0 - UpperIsf(p.den - p.num)

\* the same test with >=
HasMatches_OrNone(p) == p.num >= 0

\* if p_value > 0
HasMatches(p) == p.num > 0

\* the values np.sum(matches) is tried with
HitCounts ==
    (0..SigmaHits)
        \cup {TailCount[t] + d : t \in 1..Len(TailCount), d \in {0, 1}}
        \cup {n_sims - TailCount[t] - d : t \in 1..Len(TailCount), d \in {0, 1}}

SigmaStart ==
    /\ n_hits = 0
    /\ mc_p_value = [num |-> 0, den |-> 1]
    /\ sigma = 0
    /\ conclusions = <<>>
    /\ mc_pc = "simulate"

SigmaIdle ==
    /\ n_hits = 0
    /\ mc_p_value = [num |-> 0, den |-> 1]
    /\ sigma = 0
    /\ conclusions = <<>>
    /\ mc_pc = "idle"

\* the universes are drawn and the matches counted (lines 41-54)
CountMatches ==
    /\ mc_pc = "simulate"
    /\ \E hits \in HitCounts :
           /\ n_hits' = hits
           /\ mc_p_value' = [num |-> hits, den |-> n_sims]
    /\ mc_pc' = "sigma"
    /\ UNCHANGED <<sigma, conclusions>>
    /\ UNCHANGED notSigma

\* lines 61-64
ComputeSigma ==
    /\ mc_pc = "sigma"
    /\ sigma' = IF HasMatches(mc_p_value) THEN norm_isf(mc_p_value) ELSE 6000
    /\ mc_pc' = "strong"
    /\ UNCHANGED <<n_hits, mc_p_value, conclusions>>
    /\ UNCHANGED notSigma

\* lines 75-76
ConcludeStrong ==
    /\ mc_pc = "strong"
    /\ conclusions' = IF sigma > 3000
                      THEN Append(conclusions, "EVIDENCIA FUERTE")
                      ELSE conclusions
    /\ mc_pc' = "confirmed"
    /\ UNCHANGED <<n_hits, mc_p_value, sigma>>
    /\ UNCHANGED notSigma

\* lines 77-78
ConcludeConfirmed ==
    /\ mc_pc = "confirmed"
    /\ conclusions' = IF sigma > 5000
                      THEN Append(conclusions, "DESCUBRIMIENTO CONFIRMADO")
                      ELSE conclusions
    /\ mc_pc' = "done"
    /\ UNCHANGED <<n_hits, mc_p_value, sigma>>
    /\ UNCHANGED notSigma

---------------------------------------------------------------------------
(* The hand-off of the face scanner (9_full_dodecahedron_map.py) to the    *)
(* hologram (9_dodecaedro_final.py) through                                *)
(* dodecahedron_faces_coordinates.csv.  A score is a float, NaN included,  *)
(* kept in hundredths; a status is the sequence of the characters of the   *)
(* text, the leading emoji being one character.                            *)

\* number of families of patches that are tried
FaceSeeds == 20

Solido == <<"green", " ", "S", "O", "L", "I", "D", "O">>

Debil == <<"yellow", " ", "D", "E", "B", "I", "L">>

Ruido == <<"red", " ", "R", "U", "I", "D", "O">>

\* the scores calculate_texture_score returns: NaN for a patch of constant
\* values, 0 for a patch of fewer than 100 pixels, and values on either side
\* of 20 and 50
ScoreSamples ==
    <<[nan |-> TRUE, v |-> 0], [nan |-> FALSE, v |-> 0],
      [nan |-> FALSE, v |-> -500], [nan |-> FALSE, v |-> 2000],
      [nan |-> FALSE, v |-> 2001], [nan |-> FALSE, v |-> 5000],
      [nan |-> FALSE, v |-> 5001]>>

\* calculate_texture_score of the patch of face i
calculate_texture_score(seed, i) ==
    ScoreSamples[((seed + i * (1 + seed \div Len(ScoreSamples)))
                     % Len(ScoreSamples)) + 1]

\* score > x on floats: false for NaN
ScoreAbove(score, x) == ~score.nan /\ score.v > x

\* the classification of line 111
Classify(score) ==
    IF ScoreAbove(score, 5000) THEN Solido
    ELSE IF ScoreAbove(score, 2000) THEN Debil
    ELSE Ruido

\* the same test as an equality
IsNoise_Exact(s) == s = <<"R", "U", "I", "D", "O">>

\* if "RUIDO" in s
IsNoise(s) == contains(<<"R", "U", "I", "D", "O">>, s)

FacesStart ==
    /\ face_seed \in 0..FaceSeeds
    /\ scan_results = <<>>
    /\ csv_exists = FALSE
    /\ faces_csv = <<>>
    /\ df = <<>>
    /\ status_list = <<>>
    /\ scan_pc = "scan"
    /\ holo_pc = "call"

FacesIdle ==
    /\ face_seed = 0
    /\ scan_results = <<>>
    /\ csv_exists = FALSE
    /\ faces_csv = <<>>
    /\ df = <<>>
    /\ status_list = <<>>
    /\ scan_pc = "idle"
    /\ holo_pc = "idle"

\* one pass of `for i in range(12)` of the scanner (lines 99-115)
ScanFace ==
    /\ scan_pc = "scan"
    /\ Len(scan_results) < 12
    /\ LET i == Len(scan_results)
           score == calculate_texture_score(face_seed, i)
       IN  scan_results' =
               Append(scan_results,
                      [id |-> i + 1, score |-> score, status |-> Classify(score)])
    /\ UNCHANGED <<face_seed, csv_exists, faces_csv, df, status_list, scan_pc,
                   holo_pc>>
    /\ UNCHANGED notFaces

\* pd.DataFrame(results).to_csv(...) (line 143)
WriteFacesCsv ==
    /\ scan_pc = "scan"
    /\ Len(scan_results) = 12
    /\ faces_csv' = scan_results
    /\ csv_exists' = TRUE
    /\ scan_pc' = "done"
    /\ UNCHANGED <<face_seed, scan_results, df, status_list, holo_pc>>
    /\ UNCHANGED notFaces

\* get_face_status up to read_csv (lines 27-34)
OpenFacesCsv ==
    /\ holo_pc = "call"
    /\ IF csv_exists
       THEN /\ df' = faces_csv
            /\ status_list' = <<>>
            /\ holo_pc' = "rows"
       ELSE /\ status_list' = [i \in 1..12 |-> 1]
            /\ df' = df
            /\ holo_pc' = "default"
    /\ UNCHANGED <<face_seed, scan_results, csv_exists, faces_csv, scan_pc>>
    /\ UNCHANGED notFaces

\* one pass of `for _, row in df.iterrows()` (lines 35-40)
ReadFaceRow ==
    /\ holo_pc = "rows"
    /\ Len(status_list) < Len(df)
    /\ LET s == df[Len(status_list) + 1].status
       IN  status_list' = Append(status_list, IF IsNoise(s) THEN 0 ELSE 1)
    /\ UNCHANGED <<face_seed, scan_results, csv_exists, faces_csv, df, scan_pc,
                   holo_pc>>
    /\ UNCHANGED notFaces

\* return status_list (line 41)
ReturnFaceStatus ==
    /\ holo_pc = "rows"
    /\ Len(status_list) = Len(df)
    /\ holo_pc' = "returned"
    /\ UNCHANGED <<face_seed, scan_results, csv_exists, faces_csv, df,
                   status_list, scan_pc>>
    /\ UNCHANGED notFaces

---------------------------------------------------------------------------
(* The twist correction of V9 (17_sabueso_v9_correction_proof.py), applied *)
(* to the path once the while loop has ended.  Longitudes are integers in  *)
(* hundredths of a degree; the twist is in ten-thousandths and a           *)
(* correction is the exact fraction num / den of it, so a corrected        *)
(* longitude is lon - num / den.                                           *)

\* THEORETICAL_TWIST = 12.9742
THEORETICAL_TWIST == 129742

\* START_LON = 354.38
START_LON == 35438

\* the longitude after pos moves of STEP_SIZE = 0.2 along a parallel
lon_of(pos) == START_LON + 20 * pos

\* correction_per_step = THEORETICAL_TWIST / total_steps
CorrectionPerStep(steps) == [num |-> THEORETICAL_TWIST, den |-> steps]

\* row['lon'] - (correction_per_step * row['step'])
CorrectedLon(row, per_step) ==
    [lon |-> lon_of(row.pos),
     minus |-> [num |-> per_step.num * row.step, den |-> per_step.den]]

TwistStart ==
    /\ correction_per_step = [num |-> 0, den |-> 1]
    /\ lon_corrected = <<>>
    /\ final_lon_corr = [lon |-> 0, minus |-> [num |-> 0, den |-> 1]]
    /\ twist_pc = "walk"

TwistIdle ==
    /\ correction_per_step = [num |-> 0, den |-> 1]
    /\ lon_corrected = <<>>
    /\ final_lon_corr = [lon |-> 0, minus |-> [num |-> 0, den |-> 1]]
    /\ twist_pc = "idle"

\* lines 169-228: the loop has ended with total_steps > 0
ApplyCorrection ==
    /\ pc = "done"
    /\ twist_pc = "walk"
    /\ LET per_step == CorrectionPerStep(total_steps)
           last_pt == path[Len(path)]
       IN  /\ correction_per_step' = per_step
           /\ lon_corrected' =
                  [i \in DOMAIN path |-> CorrectedLon(path[i], per_step)]
           /\ final_lon_corr' =
                  [lon |-> lon_of(last_pt.pos),
                   minus |-> [num |-> THEORETICAL_TWIST, den |-> 1]]
    /\ twist_pc' = "corrected"
    /\ UNCHANGED walkerVars
    /\ UNCHANGED notWalkerTwist

---------------------------------------------------------------------------
(* 1_main_fractal.py, get_ring_pixels: the pixels of a ring around a       *)
(* centre.  The sphere is a patch of DiscGrid x DiscGrid pixels whose       *)
(* centres lie on the integer points; radius_rad and width_rad are in       *)
(* pixel spacings, and radii are carried doubled so that width_rad/2 is     *)
(* exact.                                                                   *)

DiscGrid == 5
MaxRadius == 3
MaxWidth == 4

DiscPixels == (0..(DiscGrid - 1)) \X (0..(DiscGrid - 1))

\* the squared distance of pixel p from centre c
Dist2(p, c) == (p[1] - c[1]) * (p[1] - c[1]) + (p[2] - c[2]) * (p[2] - c[2])

\* hp.query_disc(nside, c, rad2 / 2), inclusive=False: the pixels whose
\* centres lie inside the disc; a disc of no radius holds none
query_disc(c, rad2) ==
    {p \in DiscPixels : rad2 > 0 /\ 4 * Dist2(p, c) < rad2 * rad2}

\* np.setdiff1d(a, b)
setdiff1d(a, b) == a \ b

\* the inner radius taken a whole width inside
inner_rad_FullWidth(r, w) == 2 * r - 2 * w

\* inner_rad = radius_rad - width_rad/2, doubled
inner_rad(r, w) == 2 * r - w

\* outer_rad = radius_rad + width_rad/2, doubled
outer_rad(r, w) == 2 * r + w

get_ring_pixels(c, r, w) ==
    LET outer_pixels == query_disc(c, outer_rad(r, w))
    IN  IF inner_rad(r, w) > 0
        THEN setdiff1d(outer_pixels, query_disc(c, inner_rad(r, w)))
        ELSE outer_pixels

DiscStart ==
    /\ center_vec \in DiscPixels
    /\ radius_rad \in 0..MaxRadius
    /\ width_rad \in 0..MaxWidth
    /\ ring_result = {}
    /\ disc_pc = "call"

DiscIdle ==
    /\ center_vec = <<0, 0>>
    /\ radius_rad = 0
    /\ width_rad = 0
    /\ ring_result = {}
    /\ disc_pc = "idle"

\* pixels = get_ring_pixels(nside, vec, r_rad, width_rad=width_rad)
CallGetRingPixels ==
    /\ disc_pc = "call"
    /\ ring_result' = get_ring_pixels(center_vec, radius_rad, width_rad)
    /\ disc_pc' = "returned"
    /\ UNCHANGED <<center_vec, radius_rad, width_rad>>
    /\ UNCHANGED notDisc

---------------------------------------------------------------------------
(* 8_sabueso_v10.py: the reorientation of the V10 walker at a vertex.  The *)
(* walker stands at the head of the loop body with the signal ahead below  *)
(* the threshold and more than 25 steps since the last vertex, with an     *)
(* arbitrary accumulated bearing, and runs the scan of the new bearing.    *)

\* np.nan as a signal; abs() makes every other signal >= 0
NaNSignal == -1

\* get_signal_strength: abs(map_I[pix] * map_P[pix]), in thousandths; a NaN
\* pixel gives NaN
get_signal_strength(s, pos, angle) ==
    LET pix == PixelAhead(s, pos, angle)
    IN  IF pix.nan_I \/ pix.nan_P
        THEN NaNSignal
        ELSE Abs(pix.I * pix.P) * 1000

\* a > b on floats: False when either is NaN
GreaterThan(a, b) == a # NaNSignal /\ b # NaNSignal /\ a > b

\* range(0, 360, 10)
v10_scan_angles == [k \in 1..36 |-> (k - 1) * Deg(10)]

\* if abs(scan_ang - reverse) < 45: continue
V10Skipped(scan_ang, bearing) ==
    LET reverse == (bearing + Deg(180)) % Deg(360)
    IN  Abs(scan_ang - reverse) < Deg(45)

\* the body of the for loop for scan_ang = v10_scan_angles[k]: the pair
\* <<best_new_ang, local_max>> after it
V10ScanStep(k, s, pos, bearing, best, best_val) ==
    LET scan_ang == v10_scan_angles[k]
    IN  IF V10Skipped(scan_ang, bearing)
        THEN <<best, best_val>>
        ELSE LET s_val == get_signal_strength(s, pos, scan_ang)
             IN  IF GreaterThan(s_val, best_val)
                 THEN <<scan_ang, s_val>>
                 ELSE <<best, best_val>>

\* how far outside [0, 360) the sampled bearings reach, in steps of 5 deg
V10Span == 18

\* the bearings the walk reaches: (wall_bearing + 90) % 360 plus a sum of
\* adjustments of -15, -5, 0, 5, 15 deg
V10Bearings == {Deg(5 * k) : k \in (0 - V10Span)..(72 + V10Span)}

\* the signals of a sky that the sonar can have kept as max_sig
SonarSignals(s) ==
    {get_signal_strength(s, 0, k * CellWidth) : k \in 0..(Len(s.tex) - 1)}
        \ {NaNSignal, 0}

\* threshold = max_sig * CORR_THRESHOLD_FACTOR
V10Threshold(max_sig) == (max_sig * 4) \div 10

V10Start ==
    /\ v10_sky \in RadarSkies
    /\ v10_pos \in {0, DipPeriod - 1}
    /\ v10_current_bearing \in V10Bearings
    /\ v10_threshold \in {V10Threshold(m) : m \in SonarSignals(v10_sky)}
    /\ steps_since_vertex = 26
    /\ v10_vertices \in {0, 4}
    /\ GreaterThan(v10_threshold,
                   get_signal_strength(v10_sky, v10_pos, v10_current_bearing))
    /\ v10_best_new_ang = v10_current_bearing
    /\ v10_local_max = 0
    /\ v10_scan_k = 1
    /\ v10_pc = "loop"

V10Idle ==
    /\ v10_sky = [tex |-> <<ZeroPix>>, period |-> 0, void |-> FALSE]
    /\ v10_pos = 0
    /\ v10_current_bearing = 0
    /\ v10_threshold = 0
    /\ steps_since_vertex = 0
    /\ v10_vertices = 0
    /\ v10_best_new_ang = 0
    /\ v10_local_max = 0
    /\ v10_scan_k = 1
    /\ v10_pc = "idle"

\* if sig_ahead < threshold and steps_since_vertex > 25 (lines 86-96)
V10VertexDetected ==
    /\ v10_pc = "loop"
    /\ GreaterThan(v10_threshold,
                   get_signal_strength(v10_sky, v10_pos, v10_current_bearing))
    /\ steps_since_vertex > 25
    /\ v10_best_new_ang' = v10_current_bearing
    /\ v10_local_max' = 0
    /\ v10_scan_k' = 1
    /\ v10_pc' = "scan"
    /\ UNCHANGED <<v10_sky, v10_pos, v10_current_bearing, v10_threshold,
                   steps_since_vertex, v10_vertices>>
    /\ UNCHANGED notV10

\* one pass of the for loop over range(0, 360, 10) (lines 98-104)
V10ScanAngle ==
    /\ v10_pc = "scan"
    /\ v10_scan_k <= Len(v10_scan_angles)
    /\ \E r \in {V10ScanStep(v10_scan_k, v10_sky, v10_pos, v10_current_bearing,
                             v10_best_new_ang, v10_local_max)} :
           /\ v10_best_new_ang' = r[1]
           /\ v10_local_max' = r[2]
    /\ v10_scan_k' = v10_scan_k + 1
    /\ UNCHANGED <<v10_sky, v10_pos, v10_current_bearing, v10_threshold,
                   steps_since_vertex, v10_vertices, v10_pc>>
    /\ UNCHANGED notV10

\* after the for loop (lines 106-114, 128-130): the new bearing, the vertex,
\* the break on the 5th vertex, otherwise the move
V10Reorient ==
    /\ v10_pc = "scan"
    /\ v10_scan_k > Len(v10_scan_angles)
    /\ v10_current_bearing' = v10_best_new_ang
    /\ v10_vertices' = v10_vertices + 1
    /\ steps_since_vertex' = 0
    /\ IF v10_vertices' >= 5
       THEN /\ v10_pos' = v10_pos
            /\ v10_pc' = "done"
       ELSE /\ v10_pos' = move(v10_pos, v10_current_bearing')
            /\ v10_pc' = "turned"
    /\ UNCHANGED <<v10_sky, v10_threshold, v10_best_new_ang, v10_local_max,
                   v10_scan_k>>
    /\ UNCHANGED notV10

---------------------------------------------------------------------------
(* The specifications: one per script, each with the variables of the      *)
(* other scripts at rest.                                                  *)

Init ==
    /\ WalkerStart
    /\ PoolIdle /\ HunterIdle /\ TracerIdle /\ ResolveIdle /\ RemapIdle
    /\ MoranIdle /\ SigmaIdle /\ FacesIdle /\ TwistIdle /\ DiscIdle /\ V10Idle

Next == RadarManoeuvre \/ RadarProbe \/ RegisterVertex \/ WalkStep

Spec == Init /\ [][Next]_vars

InitRadar ==
    /\ RadarStart
    /\ PoolIdle /\ HunterIdle /\ TracerIdle /\ ResolveIdle /\ RemapIdle
    /\ MoranIdle /\ SigmaIdle /\ FacesIdle /\ TwistIdle /\ DiscIdle /\ V10Idle

NextRadar == RadarProbe

SpecRadar == InitRadar /\ [][NextRadar]_vars

InitPool ==
    /\ PoolStart
    /\ WalkerIdle /\ HunterIdle /\ TracerIdle /\ ResolveIdle /\ RemapIdle
    /\ MoranIdle /\ SigmaIdle /\ FacesIdle /\ TwistIdle /\ DiscIdle /\ V10Idle

NextPool ==
    \/ \E w \in Workers : WorkerGet(w) \/ WorkerRun(w) \/ WorkerPut(w)
    \/ MainCollect
    \/ PoolClose

SpecPool == InitPool /\ [][NextPool]_vars

InitHunter ==
    /\ HunterStart
    /\ WalkerIdle /\ PoolIdle /\ TracerIdle /\ ResolveIdle /\ RemapIdle
    /\ MoranIdle /\ SigmaIdle /\ FacesIdle /\ TwistIdle /\ DiscIdle /\ V10Idle

NextHunter ==
    \/ HunterCall
    \/ HunterFilter
    \/ HunterSweep
    \/ HunterReturn
    \/ HunterCollect
    \/ HunterSave

SpecHunter == InitHunter /\ [][NextHunter]_vars

InitTracer ==
    /\ TracerStart
    /\ WalkerIdle /\ PoolIdle /\ HunterIdle /\ ResolveIdle /\ RemapIdle
    /\ MoranIdle /\ SigmaIdle /\ FacesIdle /\ TwistIdle /\ DiscIdle /\ V10Idle

NextTracer == TracerProbe \/ TracerReturn

SpecTracer == InitTracer /\ [][NextTracer]_vars

InitResolve ==
    /\ ResolveStart
    /\ WalkerIdle /\ PoolIdle /\ HunterIdle /\ TracerIdle /\ RemapIdle
    /\ MoranIdle /\ SigmaIdle /\ FacesIdle /\ TwistIdle /\ DiscIdle /\ V10Idle

NextResolve == resolve_input_file

SpecResolve == InitResolve /\ [][NextResolve]_vars

InitRemap ==
    /\ RemapStart
    /\ WalkerIdle /\ PoolIdle /\ HunterIdle /\ TracerIdle /\ ResolveIdle
    /\ MoranIdle /\ SigmaIdle /\ FacesIdle /\ TwistIdle /\ DiscIdle /\ V10Idle

NextRemap ==
    \/ RegisterRing
    \/ Consolidate
    \/ ExtractData
    \/ RemapRing
    \/ StartWorkers
    \/ ReadRing
    \/ SaveResults

SpecRemap == InitRemap /\ [][NextRemap]_vars

InitMoran ==
    /\ MoranStart
    /\ WalkerIdle /\ PoolIdle /\ HunterIdle /\ TracerIdle /\ ResolveIdle
    /\ RemapIdle /\ SigmaIdle /\ FacesIdle /\ TwistIdle /\ DiscIdle /\ V10Idle

NextMoran == MoranReal \/ MoranSimulate \/ MoranReport

SpecMoran == InitMoran /\ [][NextMoran]_vars

InitSigma ==
    /\ SigmaStart
    /\ WalkerIdle /\ PoolIdle /\ HunterIdle /\ TracerIdle /\ ResolveIdle
    /\ RemapIdle /\ MoranIdle /\ FacesIdle /\ TwistIdle /\ DiscIdle /\ V10Idle

NextSigma == CountMatches \/ ComputeSigma \/ ConcludeStrong \/ ConcludeConfirmed

SpecSigma == InitSigma /\ [][NextSigma]_vars

InitFaces ==
    /\ FacesStart
    /\ WalkerIdle /\ PoolIdle /\ HunterIdle /\ TracerIdle /\ ResolveIdle
    /\ RemapIdle /\ MoranIdle /\ SigmaIdle /\ TwistIdle /\ DiscIdle /\ V10Idle

NextFaces ==
    \/ ScanFace
    \/ WriteFacesCsv
    \/ OpenFacesCsv
    \/ ReadFaceRow
    \/ ReturnFaceStatus

SpecFaces == InitFaces /\ [][NextFaces]_vars

InitV9 ==
    /\ WalkerStart /\ TwistStart
    /\ PoolIdle /\ HunterIdle /\ TracerIdle /\ ResolveIdle /\ RemapIdle
    /\ MoranIdle /\ SigmaIdle /\ FacesIdle /\ DiscIdle /\ V10Idle

NextV9 ==
    \/ RadarManoeuvre
    \/ RadarProbe
    \/ RegisterVertex
    \/ WalkStep
    \/ ApplyCorrection

SpecV9 == InitV9 /\ [][NextV9]_vars

InitDisc ==
    /\ DiscStart
    /\ WalkerIdle /\ PoolIdle /\ HunterIdle /\ TracerIdle /\ ResolveIdle
    /\ RemapIdle /\ MoranIdle /\ SigmaIdle /\ FacesIdle /\ TwistIdle
    /\ V10Idle

NextDisc == CallGetRingPixels

SpecDisc == InitDisc /\ [][NextDisc]_vars

InitV10 ==
    /\ V10Start
    /\ WalkerIdle /\ PoolIdle /\ HunterIdle /\ TracerIdle /\ ResolveIdle
    /\ RemapIdle /\ MoranIdle /\ SigmaIdle /\ FacesIdle /\ TwistIdle
    /\ DiscIdle

NextV10 ==
    \/ V10VertexDetected
    \/ V10ScanAngle
    \/ V10Reorient

SpecV10 == InitV10 /\ [][NextV10]_vars

---------------------------------------------------------------------------
(* Properties of the process pool.                                         *)

\* the rows of a list, as a bag
BagOfSeq(q) ==
    LET range == {q[i] : i \in DOMAIN q}
    IN  [x \in range |-> Cardinality({i \in DOMAIN q : q[i] = x})]

RECURSIVE ExpectedRows(_, _, _)
ExpectedRows(sc, m, n) ==
    IF n = 0 THEN <<>> ELSE ExpectedRows(sc, m, n - 1) \o TaskFunction(sc, m, n)

\* C1: no task is processed twice, and once the pool is closed every task
\* was processed exactly once and the rows collected are, as a multiset, the
\* rows of the task function applied to each task: the same for every
\* interleaving of the workers and every completion order.
C1_PoolResultsDeterministic ==
    /\ \A t \in DOMAIN calls : calls[t] <= 1
    /\ pool_pc = "saved" =>
           /\ \A t \in DOMAIN calls : calls[t] = 1
           /\ BagOfSeq(collected) =
                  BagOfSeq(ExpectedRows(script, maps, NumTasks(script)))

\* the pool is closed after results arrived out of task order
C1_CollectedOutOfOrder ==
    /\ pool_pc = "saved"
    /\ collected # ExpectedRows(script, maps, NumTasks(script))
    /\ collected # <<>>

---------------------------------------------------------------------------
(* Properties of the walker.                                               *)

LastRow == path[Len(path)]

VertexRows == {i \in 1..Len(path) : path[i].type = "VERTEX_FOUND"}

\* C2: the walker loop terminates: every iteration appends one row, so the
\* number of iterations is Len(path) - 1; it never exceeds MAX_STEPS, an
\* iteration is always possible while the loop runs, and the loop is left
\* either with total_steps = MAX_STEPS or by the break on the 5th vertex.
C2_WalkerTerminates ==
    /\ Len(path) - 1 <= MAX_STEPS
    /\ pc \in {"loop", "scan"} =>
           /\ total_steps = Len(path) - 1
           /\ total_steps < MAX_STEPS
           /\ ENABLED Next
    /\ pc = "done" =>
           \/ total_steps = MAX_STEPS /\ Len(path) - 1 = MAX_STEPS
           \/ /\ vertices_found = 5
              /\ LastRow.type = "VERTEX_FOUND"
              /\ Len(path) - 1 = total_steps + 1

\* the loop ran out of steps after finding some, but not five, vertices
C2_Exhausted ==
    pc = "done" /\ total_steps = MAX_STEPS /\ vertices_found \in 1..4

\* C3: every VERTEX_FOUND row is preceded by more than 20 consecutive PATH
\* rows since the previous vertex row.
C3_VertexAfterTwentySteps ==
    \A i \in VertexRows :
        /\ i > 21
        /\ \A j \in (i - 21)..(i - 1) : path[j].type = "PATH"

\* after a first vertex the walker is again on a young edge (at most 20 steps)
\* with the signal ahead below the threshold, and it has kept walking
C3_LowSignalOnYoungEdge ==
    /\ pc = "loop"
    /\ vertices_found >= 1
    /\ steps_on_edge \in 1..20
    /\ get_signal_at(current_pos, current_bearing) < signal_threshold
    /\ LastRow.type = "PATH"

CircularDistance(a, b) ==
    LET d == (a - b) % Deg(360)
    IN  Min(d, Deg(360) - d)

\* C4: after the radar scan the new bearing is one of the scanned angles
\* 0, 5, ..., 355, at circular distance >= 45 deg from the reverse bearing,
\* and an angle was selected (max_scan_sig left its initial -1), whatever
\* the current bearing.
C4_RadarNeverTurnsBack ==
    (pc = "scan" /\ scan_k > Len(scan_angles)) =>
        /\ \E k \in 0..71 : best_new_angle = Deg(5 * k)
        /\ CircularDistance(best_new_angle,
                            (current_bearing + Deg(180)) % Deg(360)) >= Deg(45)
        /\ max_scan_sig >= 0

\* the radar has turned a walker whose bearing had left [0, 360)
C4_TurnedFromOutsideRange ==
    /\ pc = "scan" /\ scan_k > Len(scan_angles)
    /\ current_bearing < 0 \/ current_bearing >= Deg(360)
    /\ best_new_angle # current_bearing

\* C5: at most 5 vertices are found, the path holds one VERTEX_FOUND row per
\* vertex, and the 5th vertex row is the last row: the loop has stopped.
C5_AtMostFiveVertices ==
    /\ vertices_found <= 5
    /\ Cardinality(VertexRows) = vertices_found
    /\ vertices_found = 5 => pc = "done" /\ LastRow.type = "VERTEX_FOUND"

\* the pentagon was closed
C5_PentagonClosed == pc = "done" /\ vertices_found = 5


---------------------------------------------------------------------------
(* Properties of the line hunter.                                          *)

\* C6: process_point returns an empty list for a centre whose absolute
\* latitude is below 30 degrees, having evaluated no angle, and no row that
\* is collected or written to line_metrics.csv has |lat| < 30.
C6_GalacticFilter ==
    /\ (hunter_pc = "returned" /\ Abs(lat_deg) < MIN_LAT_FILTER) =>
           results = <<>> /\ rects = 0
    /\ \A i \in DOMAIN all_hits : Abs(all_hits[i].lat) >= MIN_LAT_FILTER
    /\ \A i \in DOMAIN csv : Abs(csv[i].lat) >= MIN_LAT_FILTER

\* process_point has returned from a galactic centre around which the maps
\* hold a strong line, after other centres produced rows
C6_GalacticCentreSkipped ==
    /\ hunter_pc = "returned"
    /\ Abs(lat_deg) < MIN_LAT_FILTER
    /\ all_hits # <<>>
    /\ \E a \in 0..89 : HunterHit(hunter_maps, hunter_idx, 2 * a)

---------------------------------------------------------------------------
(* Properties of the vertex tracer.                                        *)

\* the candidates in scan order: angle by angle, the short line first
TracerOrder == 1..(180 * Len(LINE_LENGTHS))

AngleOf(n) == (n - 1) \div Len(LINE_LENGTHS)

LengthOf(n) == ((n - 1) % Len(LINE_LENGTHS)) + 1

\* C7: process_point returns at most one line: the candidate with the
\* largest |corr_IP| over all angles 0..179 and both lengths, the first one
\* scanned on ties, and only when that |corr_IP| exceeds CORR_THRESHOLD;
\* otherwise it returns None.
C7_BestCandidateOnly ==
    tracer_pc = "returned" =>
        LET absCorr(n) ==
                Abs(TracerCorr(tracer_maps, tracer_idx, AngleOf(n), LengthOf(n)))
            valid == {n \in TracerOrder :
                         TracerEvaluated(tracer_maps, tracer_idx, AngleOf(n),
                                         LengthOf(n))}
            top == {n \in valid : \A j \in valid : absCorr(j) <= absCorr(n)}
            first == CHOOSE n \in top : \A j \in top : n <= j
        IN  /\ Len(trace_result) <= 1
            /\ IF top # {} /\ absCorr(first) > CORR_THRESHOLD
               THEN trace_result =
                        <<[center_idx |-> tracer_idx,
                           angle |-> AngleOf(first),
                           length |-> LINE_LENGTHS[LengthOf(first)],
                           corr_IP |-> TracerCorr(tracer_maps, tracer_idx,
                                                  AngleOf(first), LengthOf(first))]>>
               ELSE trace_result = <<>>

\* a line was returned although a candidate scanned later is as strong
C7_TieKeepsFirst ==
    /\ tracer_pc = "returned"
    /\ trace_result # <<>>
    /\ \E a \in 0..179, li \in 1..2 :
           /\ a > trace_result[1].angle
           /\ TracerEvaluated(tracer_maps, tracer_idx, a, li)
           /\ Abs(TracerCorr(tracer_maps, tracer_idx, a, li)) =
                  Abs(trace_result[1].corr_IP)

---------------------------------------------------------------------------
(* Properties of resolve_input_file.                                       *)

IsFits(f) == endswith(lower(f), DotFits)

\* C8: with no .fits file the process exits with status 1; otherwise the
\* first .fits file whose name contains 'sevem' in any case is selected if
\* there is one, otherwise the first that contains 'smica', otherwise the
\* first .fits file.
C8_ResolvePriority ==
    resolve_pc # "call" =>
        LET fits == {i \in DOMAIN files : IsFits(files[i])}
            sevem == {i \in fits : contains(Sevem, lower(files[i]))}
            smica == {i \in fits : contains(Smica, lower(files[i]))}
            preferred == IF sevem # {} THEN sevem
                         ELSE IF smica # {} THEN smica
                         ELSE fits
        IN  IF fits = {}
            THEN resolve_pc = "exited" /\ exit_status = 1
            ELSE /\ resolve_pc = "returned"
                 /\ exit_status = 0
                 /\ \E i \in preferred :
                        /\ selected = files[i]
                        /\ \A j \in preferred : i <= j

\* an upper-case SEVEM file was selected although a smica file comes first
C8_SevemOverEarlierSmica ==
    /\ resolve_pc = "returned"
    /\ Len(files) >= 2
    /\ IsFits(files[1])
    /\ contains(Smica, lower(files[1]))
    /\ ~contains(Sevem, lower(files[1]))
    /\ selected # files[1]
    /\ ~contains(Sevem, selected)

---------------------------------------------------------------------------
(* Properties of the index remapping.                                      *)

\* the rings the scan registers: the candidates with more than 50 pixels
Registered == SelectSeq(candidates, LAMBDA ring : Len(ring) > 50)

\* C9: for every registered ring, the reduced arrays indexed with the
\* remapped indices hold the values of the full map at the ring's original
\* pixels, in the same order, and these are the values a worker reads.
C9_RemapLossless ==
    /\ remap_pc \in {"remap", "pool"} =>
           \A t \in DOMAIN remap_tasks :
               /\ Len(remap_tasks[t]) = Len(Registered[t])
               /\ \A n \in DOMAIN remap_tasks[t] :
                      /\ remap_tasks[t][n] < Len(unique_pixels)
                      /\ \A field \in {"I", "Q", "U"} :
                             At(extracted_data[field], remap_tasks[t][n]) =
                                 FullMap(remap_maps, field, Registered[t][n])
    /\ \A t \in DOMAIN ring_vals :
           \A field \in {"I", "Q", "U"} :
               ring_vals[t][field] =
                   [n \in DOMAIN Registered[t] |->
                       FullMap(remap_maps, field, Registered[t][n])]

\* every ring was read, two rings share pixels, and an index was moved
C9_OverlappingRingsRead ==
    /\ remap_pc = "pool"
    /\ Len(ring_vals) = 2
    /\ Len(ring_vals) = Len(remap_tasks)
    /\ \E n \in DOMAIN Registered[1], j \in DOMAIN Registered[2] :
           Registered[1][n] = Registered[2][j]
    /\ \E n \in DOMAIN remap_tasks[2] : remap_tasks[2][n] # Registered[2][n]

---------------------------------------------------------------------------
(* Properties of the Moran significance test.                              *)

\* C10: the reported p-value is (n_higher + 1) / (N + 1), with n_higher the
\* number of shuffled Moran values greater than or equal to the real one,
\* and lies in (0, 1].
C10_PValueNeverZero ==
    moran_pc = "reported" =>
        /\ n_higher = Cardinality({i \in 1..N_SIMULATIONS :
                                      /\ ~random_morans[i].nan
                                      /\ ~real_moran.nan
                                      /\ random_morans[i].num >= real_moran.num})
        /\ p_value.num = n_higher + 1
        /\ p_value.den = N_SIMULATIONS + 1
        /\ 0 < p_value.num
        /\ p_value.num <= p_value.den

\* no shuffle reached the real index of data that is not constant
C10_NoShuffleHigher ==
    /\ moran_pc = "reported"
    /\ ~real_moran.nan
    /\ n_higher = 0

---------------------------------------------------------------------------
(* Properties of the Monte Carlo sigma test.                               *)

Printed(text) == \E i \in DOMAIN conclusions : conclusions[i] = text

\* C11: sigma is 6.0 exactly when no universe matches (n_hits = 0 and
\* p_value = 0) and norm.isf(p_value) otherwise; with no match both
\* conclusions are printed, and DESCUBRIMIENTO CONFIRMADO is never printed
\* without EVIDENCIA FUERTE.
C11_SigmaSafetyValue ==
    /\ mc_pc \in {"strong", "confirmed", "done"} =>
           /\ sigma = 6000 <=> n_hits = 0
           /\ n_hits = 0 <=> mc_p_value.num = 0
           /\ n_hits # 0 => sigma = norm_isf(mc_p_value)
    /\ (mc_pc = "done" /\ n_hits = 0) =>
           conclusions = <<"EVIDENCIA FUERTE", "DESCUBRIMIENTO CONFIRMADO">>
    /\ Printed("DESCUBRIMIENTO CONFIRMADO") => Printed("EVIDENCIA FUERTE")

\* the run ended with no matching universe
C11_NoUniverseMatched == mc_pc = "done" /\ n_hits = 0 /\ sigma = 6000

---------------------------------------------------------------------------
(* Properties of the hand-off of the face scanner to the hologram.         *)

\* C12: for the CSV the scanner wrote, get_face_status returns one entry
\* per row, in row order, which is 0 exactly for the faces whose score is
\* not greater than 20 and 1 for every other face.
C12_FaceStatusFollowsScore ==
    holo_pc = "returned" =>
        /\ Len(status_list) = Len(faces_csv)
        /\ Len(status_list) = 12
        /\ \A i \in 1..12 :
               /\ faces_csv[i].id = i
               /\ status_list[i] \in {0, 1}
               /\ status_list[i] = 0 <=>
                      (faces_csv[i].score.nan \/ faces_csv[i].score.v <= 2000)

\* the hologram read a CSV with a NaN face, a face at exactly 20, a weak
\* face and a solid face
C12_MixedFacesRead ==
    /\ holo_pc = "returned"
    /\ \E i \in 1..12 : faces_csv[i].score.nan /\ status_list[i] = 0
    /\ \E i \in 1..12 : faces_csv[i].score = [nan |-> FALSE, v |-> 2000]
    /\ \E i \in 1..12 : faces_csv[i].status = Debil /\ status_list[i] = 1
    /\ \E i \in 1..12 : faces_csv[i].status = Solido /\ status_list[i] = 1

---------------------------------------------------------------------------
(* Properties of the twist correction.                                     *)

\* lon - num / den of a and of b are the same number
SameLongitude(a, b) ==
    /\ a.lon = b.lon
    /\ a.minus.num * b.minus.den = b.minus.num * a.minus.den

\* C13: the start row receives no correction and the last row of the path
\* receives the full THEORETICAL_TWIST: its lon_corrected is the plotted
\* last_lon - THEORETICAL_TWIST, whether the walk ended with 5 vertices or
\* with MAX_STEPS steps.
C13_LastRowFullTwist ==
    twist_pc = "corrected" =>
        /\ lon_corrected[1].minus.num = 0
        /\ SameLongitude(lon_corrected[Len(lon_corrected)], final_lon_corr)

---------------------------------------------------------------------------
(* Properties of the validation of the polarisation data.                  *)

\* C14: when the extracted Q values are all zero or the extracted U values
\* are all zero, the critical error is reported and the script exits with
\* status 1; no task is prepared, no worker pool is started and
\* fractal_metrics.csv is not written.
C14_ZeroPolarisationExits ==
    LET extracted == remap_pc \notin {"scan", "load", "ValueError"}
        zeros(field) == \A i \in DOMAIN extracted_data[field] :
                            extracted_data[field][i] = 0
    IN  (extracted /\ (zeros("Q") \/ zeros("U"))) =>
            /\ remap_pc = "exited"
            /\ fractal_exit = 1
            /\ Len(fractal_report) = 1
            /\ remap_tasks = <<>>
            /\ ring_vals = <<>>
            /\ ~fractal_csv.written

\* the script exited on maps whose Q is zero while U is not
C14_ExitedOnZeroQ ==
    /\ remap_pc = "exited"
    /\ fractal_exit = 1
    /\ \A i \in DOMAIN extracted_data.Q : extracted_data.Q[i] = 0
    /\ \E i \in DOMAIN extracted_data.U : extracted_data.U[i] # 0

---------------------------------------------------------------------------
(* Properties of get_ring_pixels.                                          *)

\* C15: get_ring_pixels returns exactly the pixels of the outer disc
\* (radius + width/2) that are not in the inner disc (radius - width/2):
\* the result is disjoint from the inner disc and contained in the outer
\* disc, and when radius - width/2 <= 0 it is the whole outer disc.
C15_RingIsOuterMinusInner ==
    LET outer == query_disc(center_vec, 2 * radius_rad + width_rad)
        inner == query_disc(center_vec, 2 * radius_rad - width_rad)
    IN  disc_pc = "returned" =>
            /\ ring_result = {p \in outer : p \notin inner}
            /\ ring_result \cap inner = {}
            /\ ring_result \subseteq outer
            /\ (2 * radius_rad - width_rad <= 0 => ring_result = outer)

\* a ring was returned whose inner disc holds pixels
C15_RingWithHole ==
    /\ disc_pc = "returned"
    /\ query_disc(center_vec, 2 * radius_rad - width_rad) # {}
    /\ ring_result # {}

---------------------------------------------------------------------------
(* Properties of the V10 reorientation.                                    *)

\* C16: the V10 reorientation scan excludes the backward cone of the V8
\* radar: whatever the current bearing, the new bearing selected at a
\* vertex is at circular distance >= 45 deg from the reverse bearing
\* (current + 180) mod 360.
C16_V10NeverTurnsBack ==
    (v10_pc = "scan" /\ v10_scan_k > Len(v10_scan_angles)) =>
        CircularDistance(v10_best_new_ang,
                         (v10_current_bearing + Deg(180)) % Deg(360)) >= Deg(45)

---------------------------------------------------------------------------
(* Properties of the autopilot.                                            *)

\* C17: in every non-vertex iteration the bearing changes by exactly one of
\* -8, -4, 0, 4, 8 deg; the probe of the chosen adjustment is >= the other
\* four probes and > the probes of the candidates listed before it, so when
\* all five probes are equal the bearing changes by -8 deg.
C17_AutopilotGreedy ==
    [][ (pc = "loop" /\ pc' # "scan") =>
            LET list == <<-8, -4, 0, 4, 8>>
                probe(j) == get_signal_at(current_pos,
                                          current_bearing + Deg(list[j]))
            IN  /\ \E k \in 1..5 :
                       /\ current_bearing' = current_bearing + Deg(list[k])
                       /\ \A j \in 1..5 : probe(k) >= probe(j)
                       /\ \A j \in 1..(k - 1) : probe(k) > probe(j)
                /\ (\A j \in 1..5 : probe(j) = probe(1)) =>
                       current_bearing' = current_bearing + Deg(-8) ]_vars

\* the first step was taken with five equal probes and turned by -8 deg
C17_TieTurnsLeft ==
    /\ total_steps = 1
    /\ LastRow.type = "PATH"
    /\ \A adj \in {-8, -4, 0, 4, 8} :
           get_signal_at(0, INITIAL_BEARING + Deg(adj))
               = get_signal_at(0, INITIAL_BEARING)
    /\ current_bearing = INITIAL_BEARING + Deg(-8)

=============================================================================
